---- MODULE Spec2Model ----
(***************************************************************************)
(* Model of the two example programs of langgraph-multi-agent:             *)
(*   - the single-agent tool loop (graph "agent" / "tools", one            *)
(*     `messages` channel, conditional edge shouldContinue);               *)
(*   - the two-agent script (AgentState with `messages` and `sender`,      *)
(*     researchNode / chartNode built on runAgentNode).                    *)
(* A behaviour is one run of one of the two programs (variable program).   *)
(* The language model and the tools are external: their answers are        *)
(* chosen nondeterministically from small sets.                            *)
(***************************************************************************)
EXTENDS Integers, Sequences, FiniteSets, TLC

VARIABLES
    program,     \* "single" (tool loop graph) or "multi" (AgentState script)
    state,       \* the graph state: [messages] or [messages, sender]
    next,        \* single graph: nodes of the coming superstep, "route" = conditional edge pending
    active,      \* single graph: nodes that have started and not yet returned
    status,      \* "running" | "done" | "failed"
    error,       \* error surfaced to the caller of the run, "none" if none
    steps,       \* number of node executions so far
    log,         \* history: the message lists of the input and of every merged delta
    lastStep,    \* history: the most recent node execution
    lastAgent,   \* history: name carried by the most recent merged agent delta
    modelCalls,  \* history: number of language-model invocations so far
    routeLog,    \* history: every evaluation of the routing function
    checkpoint,  \* the checkpoint store: per thread id, the saved state if any
    runs,        \* number of invocations of the graph so far
    resumed,     \* history: the messages the thread held when the current run began
    trace,       \* history: nodes started in the current run, "__end__" once reached
    completion   \* history: order in which the handlers of the last dispatch completed

vars == <<program, state, next, active, status, error, steps, log, lastStep,
          lastAgent, modelCalls, routeLog, checkpoint, runs, resumed, trace,
          completion>>

----------------------------------------------------------------------------
(* Bounds of the exploration *)

MaxSteps == 3      \* node executions in a run of the single-agent graph
MaxNodeRuns == 2   \* node executions on the AgentState of the two-agent script
MaxCalls == 2      \* tool calls in one model response
MaxRuns == 2       \* invocations of the graph on the thread

----------------------------------------------------------------------------
(* Values *)

Undefined == "undefined"
TypeError == "TypeError"

Queries == {"What is LangGraph??"}
AnswerContents == {"answer", "FINAL ANSWER"}
ModelErrors == {"RateLimitError", "NetworkError"}

\* names of the tools defined by the programs
tavilyTool == "tavily_search_results_json"
chartTool == "generate_bar_chart"

\* new HumanMessage(content)
HumanMessage(content) == [type |-> "human", content |-> content]

\* new HumanMessage({ ...result, name }): content kept, attributed to name
NamedHumanMessage(result, name) ==
    [type |-> "human", content |-> result.content, name |-> name]

AIMessage(content, tool_calls) ==
    [type |-> "ai", content |-> content, tool_calls |-> tool_calls]

ToolMessage(name, content, tool_call_id) ==
    [type |-> "tool", content |-> content, name |-> name,
     tool_call_id |-> tool_call_id]

\* a tool call the model may request from an agent bound to tool t:
\* the bound tool with arguments that match its schema or not, or a tool
\* name that is not registered anywhere
CallShapes(t) ==
    { [name |-> t, args |-> "valid"],
      [name |-> t, args |-> "invalid"],
      [name |-> "foo", args |-> "valid"] }

\* tool_calls arrays of 1..MaxCalls distinct calls; the id of a call is its
\* position in the array
CallLists(t) ==
    UNION { { [i \in 1..n |-> [name |-> f[i].name, args |-> f[i].args, id |-> i]]
              : f \in { g \in [1..n -> CallShapes(t)] :
                          \A i, j \in 1..n : i # j => g[i] # g[j] } }
            : n \in 1..MaxCalls }

\* what a model invocation can produce: an AI message (final text or tool
\* requests) or a rejected call
ModelOutcomes(t) ==
    { [ok |-> TRUE, response |-> AIMessage(c, <<>>)] : c \in AnswerContents }
    \cup { [ok |-> TRUE, response |-> AIMessage("", tc)] : tc \in CallLists(t) }
    \cup { [ok |-> FALSE, error |-> e] : e \in ModelErrors }

----------------------------------------------------------------------------
(* State channels and their reducers *)

\* variant: the update is put in front of the current value
messagesReducerPrepend(x, y) == y \o x

\* reducer of the messages channel (both annotations): x.concat(y)
messagesReducer(x, y) == x \o y

\* default of StateAnnotation.messages
messagesDefault == <<>>

\* default of AgentState.sender
senderDefault == "user"

\* variant: operands of ?? swapped, the current value wins
senderReducerKeepCurrent(x, y) ==
    IF x # Undefined THEN x
    ELSE IF y # Undefined THEN y
    ELSE "user"

\* reducer of AgentState.sender: y ?? x ?? "user"
senderReducer(x, y) ==
    IF y # Undefined THEN y
    ELSE IF x # Undefined THEN x
    ELSE "user"

\* merge of a node's delta into the state, channel by channel; a channel the
\* delta does not write keeps its value
MergeDelta(s, delta) ==
    [ch \in DOMAIN s |->
        IF ch \in DOMAIN delta
        THEN IF ch = "messages" THEN messagesReducer(s[ch], delta[ch])
                                ELSE senderReducer(s[ch], delta[ch])
        ELSE s[ch]]

----------------------------------------------------------------------------
(* Node functions *)

HasToolCalls(m) == "tool_calls" \in DOMAIN m /\ Len(m.tool_calls) > 0

\* variant: index messages.length instead of messages.length - 1
shouldContinueOffByOne(s) == TypeError

\* variant: looks at the first message instead of the last
shouldContinueFirst(s) ==
    IF Len(s.messages) = 0 THEN TypeError
    ELSE IF HasToolCalls(s.messages[1]) THEN "tools" ELSE "__end__"

\* shouldContinue: reads messages[messages.length - 1]; reading tool_calls of
\* an undefined last message throws
shouldContinue(s) ==
    IF Len(s.messages) = 0 THEN TypeError
    ELSE LET lastMessage == s.messages[Len(s.messages)]
         IN  IF HasToolCalls(lastMessage) THEN "tools" ELSE "__end__"

\* variant: a rejected model call is caught and an empty delta returned
callModelSwallow(s, outcome) ==
    IF outcome.ok
    THEN [threw |-> FALSE, calls |-> 1,
          delta |-> [messages |-> <<outcome.response>>]]
    ELSE [threw |-> FALSE, calls |-> 1, delta |-> [messages |-> <<>>]]

\* callModel: one model.invoke, no try/catch; the response is returned as a
\* one-message delta, a rejected call rejects callModel
callModel(s, outcome) ==
    IF outcome.ok
    THEN [threw |-> FALSE, calls |-> 1,
          delta |-> [messages |-> <<outcome.response>>]]
    ELSE [threw |-> TRUE, calls |-> 1, error |-> outcome.error]

\* variant: the response is never re-created as a human message
runAgentNodeKeepResponse(s, name, outcome) ==
    IF outcome.ok
    THEN [threw |-> FALSE, calls |-> 1,
          delta |-> [messages |-> <<outcome.response>>, sender |-> name]]
    ELSE [threw |-> TRUE, calls |-> 1, error |-> outcome.error]

\* runAgentNode: one agent.invoke, no try/catch; a response without tool
\* calls is re-created as a human message named after the agent
runAgentNode(s, name, outcome) ==
    IF outcome.ok
    THEN LET result == IF ~ HasToolCalls(outcome.response)
                       THEN NamedHumanMessage(outcome.response, name)
                       ELSE outcome.response
         IN  [threw |-> FALSE, calls |-> 1,
              delta |-> [messages |-> <<result>>, sender |-> name]]
    ELSE [threw |-> TRUE, calls |-> 1, error |-> outcome.error]

\* the tools registered with the dispatcher of each program
tools == {tavilyTool}
agentTools == {tavilyTool, chartTool}

\* variant: the lookup by name is skipped, any requested name is executed
InvokeToolNoLookup(registered, call) ==
    IF call.args # "valid"
    THEN ToolMessage(call.name, "Error: invalid arguments", call.id)
    ELSE ToolMessage(call.name, "result", call.id)

\* one requested invocation inside ToolNode: a missing tool or a schema
\* mismatch throws inside the try block, and the catch turns the error into a
\* tool message for that call (handleToolErrors is left at its default)
InvokeTool(registered, call) ==
    IF call.name \notin registered
    THEN ToolMessage(call.name, "Error: tool not found", call.id)
    ELSE IF call.args # "valid"
    THEN ToolMessage(call.name, "Error: invalid arguments", call.id)
    ELSE ToolMessage(call.name, "result", call.id)

\* the orders in which k concurrently started handlers can complete
CompletionOrders(k) ==
    { o \in [1..k -> 1..k] : \A i, j \in 1..k : i # j => o[i] # o[j] }

\* variant: each result is pushed to the output array when its handler
\* completes
PromiseAllPush(results, order) ==
    [j \in 1..Len(results) |-> results[order[j]]]

RECURSIVE Settle(_, _, _)
\* the promises settle one after the other in completion order; each writes
\* its value into the slot of its own position
Settle(slots, results, order) ==
    IF order = <<>> THEN slots
    ELSE Settle([slots EXCEPT ![Head(order)] = results[Head(order)]],
                results, Tail(order))

\* Promise.all over tool_calls.map(...): the output array is indexed by the
\* position of the call, whatever the order of completion
PromiseAll(results, order) ==
    Settle([i \in 1..Len(results) |-> Undefined], results, order)

\* variant: handleToolErrors switched off, the first failing call rejects
\* the whole node
ToolNodeRunNoHandle(s, registered, order) ==
    IF Len(s.messages) = 0 \/ s.messages[Len(s.messages)].type # "ai"
    THEN [threw |-> TRUE, calls |-> 0,
          error |-> "ToolNode only accepts AIMessages as input."]
    ELSE LET message == s.messages[Len(s.messages)]
             bad == { i \in 1..Len(message.tool_calls) :
                        \/ message.tool_calls[i].name \notin registered
                        \/ message.tool_calls[i].args # "valid" }
         IN  IF bad # {}
             THEN [threw |-> TRUE, calls |-> 0, error |-> "ToolError"]
             ELSE [threw |-> FALSE, calls |-> 0,
                   delta |-> [messages |-> PromiseAll(
                       [i \in 1..Len(message.tool_calls) |->
                           InvokeTool(registered, message.tool_calls[i])],
                       order)]]

\* ToolNode: takes the last message, refuses anything but an AI message, and
\* returns one tool message per requested call, in the order of tool_calls
ToolNodeRun(s, registered, order) ==
    IF Len(s.messages) = 0 \/ s.messages[Len(s.messages)].type # "ai"
    THEN [threw |-> TRUE, calls |-> 0,
          error |-> "ToolNode only accepts AIMessages as input."]
    ELSE LET message == s.messages[Len(s.messages)]
         IN  [threw |-> FALSE, calls |-> 0,
              delta |-> [messages |-> PromiseAll(
                  [i \in 1..Len(message.tool_calls) |->
                      InvokeTool(registered, message.tool_calls[i])],
                  order)]]

----------------------------------------------------------------------------
(* Graph and checkpointer of the single-agent program *)

\* variant: a second edge leaves "__start__"
entryPointFanOut == {"agent", "tools"}

\* addEdge("__start__", "agent")
entryPoint == {"agent"}

\* variant: the edge out of "tools" points back to "tools"
toolsEdgeSelf == {"tools"}

\* addEdge("tools", "agent")
toolsEdge == {"agent"}

\* variant: the graph is compiled without a checkpointer
checkpointerMissing == "none"

\* const checkpointer = new MemorySaver(); graph.compile({ checkpointer })
checkpointer == "MemorySaver"

\* configurable: { thread_id: "42" }
thread_id == "42"

NoCheckpoint == [present |-> FALSE]

\* the store after saving state s under thread id t
save(store, t, s) ==
    IF checkpointer = "none" THEN store
    ELSE [store EXCEPT ![t] = [present |-> TRUE, values |-> s]]

\* the state a run on thread t starts from: the saved one, or the defaults
\* of the channels
load(store, t) ==
    IF checkpointer # "none" /\ store[t].present
    THEN store[t].values
    ELSE [messages |-> messagesDefault]

----------------------------------------------------------------------------
(* Runs *)

\* app.invoke({ messages: [new HumanMessage(query)] }, thread "42"):
\* the input is written to the messages channel through its reducer
InitSingle ==
    /\ program = "single"
    /\ \E q \in Queries :
         /\ state = [messages |->
                        messagesReducer(messagesDefault, <<HumanMessage(q)>>)]
         /\ log = <<state.messages>>
    /\ next = entryPoint
    /\ checkpoint = save([t \in {thread_id} |-> NoCheckpoint], thread_id, state)

\* the AgentState script: the caller builds the state by hand with
\* sender "User" (example invocation), or leaves sender to its default
InitMulti ==
    /\ program = "multi"
    /\ \E q \in Queries, given \in {Undefined, "User"} :
         /\ state = [messages |-> <<HumanMessage(q)>>,
                     sender |-> senderReducer(senderDefault, given)]
         /\ log = <<state.messages>>
    /\ next = {}
    /\ checkpoint = [t \in {thread_id} |-> NoCheckpoint]

Init ==
    /\ InitSingle \/ InitMulti
    /\ active = {}
    /\ status = "running"
    /\ error = "none"
    /\ steps = 0
    /\ lastStep = [node |-> "none"]
    /\ lastAgent = "none"
    /\ modelCalls = 0
    /\ routeLog = {}
    /\ runs = 1
    /\ resumed = <<>>
    /\ trace = <<>>
    /\ completion = <<>>

\* effect of one node execution with return value r on the run: a rejected
\* node ends the run with its error and writes nothing, a returned delta is
\* merged through the reducers and, in the compiled graph, checkpointed
Advance(node, input, r, after) ==
    /\ steps' = steps + 1
    /\ modelCalls' = modelCalls + r.calls
    /\ lastStep' = [node |-> node, pre |-> state, input |-> input, result |-> r,
                    callsBefore |-> modelCalls]
    /\ active' = active \ {node}
    /\ IF r.threw
       THEN /\ status' = "failed"
            /\ error' = r.error
            /\ UNCHANGED <<state, log, next, lastAgent, checkpoint>>
       ELSE /\ state' = MergeDelta(state, r.delta)
            /\ log' = Append(log, r.delta.messages)
            /\ next' = after
            /\ lastAgent' = IF "sender" \in DOMAIN r.delta
                            THEN r.delta.sender ELSE lastAgent
            /\ checkpoint' = IF program = "single"
                             THEN save(checkpoint, thread_id, state')
                             ELSE checkpoint
            /\ UNCHANGED <<status, error>>
    /\ UNCHANGED <<program, routeLog, runs, resumed, trace>>

\* a later call of getFinalState: app.invoke with a new input on thread "42"
\* once the previous run has returned or thrown; the run starts from the
\* state loaded from the checkpoint store
getFinalState ==
    /\ program = "single" /\ status \in {"done", "failed"}
    /\ runs < MaxRuns
    /\ \E q \in Queries :
         LET input == [messages |-> <<HumanMessage(q)>>]
         IN  /\ state' = MergeDelta(load(checkpoint, thread_id), input)
             /\ log' = Append(log, input.messages)
    /\ checkpoint' = save(checkpoint, thread_id, state')
    /\ resumed' = state.messages
    /\ runs' = runs + 1
    /\ next' = entryPoint
    /\ active' = {}
    /\ status' = "running"
    /\ error' = "none"
    /\ trace' = <<>>
    /\ lastStep' = [node |-> "none"]
    /\ UNCHANGED <<program, steps, lastAgent, modelCalls, routeLog, completion>>

\* the orchestrator starts a node of the coming superstep
BeginNode ==
    /\ program = "single" /\ status = "running"
    /\ steps + Cardinality(active) < MaxSteps
    /\ \E n \in (next \cap {"agent", "tools"}) \ active :
         /\ active' = active \cup {n}
         /\ trace' = Append(trace, n)
    /\ UNCHANGED <<program, state, next, status, error, steps, log, lastStep,
                   lastAgent, modelCalls, routeLog, checkpoint, runs, resumed,
                   completion>>

\* node "agent" returns with one of the given model outcomes
AgentReturns(outcomes) ==
    /\ program = "single" /\ status = "running"
    /\ "agent" \in active
    /\ \E o \in outcomes :
         Advance("agent", o, callModel(state, o), {"route"})
    /\ UNCHANGED completion

\* node "agent" of the single-agent graph: callModel, then the conditional edge
AgentNode == AgentReturns(ModelOutcomes(tavilyTool))

\* conditional edge out of "agent": shouldContinue picks "tools" or "__end__"
Route ==
    /\ program = "single" /\ status = "running"
    /\ next = {"route"}
    /\ LET decision == shouldContinue(state)
       IN  /\ routeLog' = routeLog \cup
                 {[messages |-> state.messages, decision |-> decision]}
           /\ IF decision = TypeError
              THEN /\ status' = "failed" /\ error' = TypeError
                   /\ UNCHANGED <<next, trace>>
              ELSE /\ next' = {decision}
                   /\ status' = IF decision = "__end__" THEN "done" ELSE status
                   /\ trace' = IF decision = "__end__"
                               THEN Append(trace, "__end__") ELSE trace
                   /\ UNCHANGED error
    /\ UNCHANGED <<program, state, active, steps, log, lastStep, lastAgent,
                   modelCalls, checkpoint, runs, resumed, completion>>

\* node "tools" of the single-agent graph, with its fixed edge back to "agent"
ToolsNode ==
    /\ program = "single" /\ status = "running"
    /\ "tools" \in active
    /\ \E order \in CompletionOrders(
                       IF HasToolCalls(state.messages[Len(state.messages)])
                       THEN Len(state.messages[Len(state.messages)].tool_calls)
                       ELSE 0) :
         /\ Advance("tools", state.messages[Len(state.messages)],
                    ToolNodeRun(state, tools, order), toolsEdge)
         /\ completion' = order

\* researchNode: runAgentNode with the research agent, name "Researcher"
researchNode ==
    /\ program = "multi" /\ status = "running" /\ steps < MaxNodeRuns
    /\ \E o \in ModelOutcomes(tavilyTool) :
         Advance("Researcher", o, runAgentNode(state, "Researcher", o), {})
    /\ UNCHANGED completion

\* chartNode: runAgentNode with the chart agent, name "ChartGenerator"
chartNode ==
    /\ program = "multi" /\ status = "running" /\ steps < MaxNodeRuns
    /\ \E o \in ModelOutcomes(chartTool) :
         Advance("ChartGenerator", o,
                 runAgentNode(state, "ChartGenerator", o), {})
    /\ UNCHANGED completion

\* a dispatcher step on AgentState: the pending tool calls of the last
\* message are executed; the delta carries messages only
callTool ==
    /\ program = "multi" /\ status = "running" /\ steps < MaxNodeRuns
    /\ HasToolCalls(state.messages[Len(state.messages)])
    /\ \E order \in CompletionOrders(
                       Len(state.messages[Len(state.messages)].tool_calls)) :
         /\ Advance("tools", state.messages[Len(state.messages)],
                    ToolNodeRun(state, agentTools, order), {})
         /\ completion' = order

Next ==
    \/ getFinalState
    \/ BeginNode
    \/ AgentNode
    \/ Route
    \/ ToolsNode
    \/ researchNode
    \/ chartNode
    \/ callTool

Spec == Init /\ [][Next]_vars

----------------------------------------------------------------------------
(* One run of the single-agent graph in which every model call and every   *)
(* tool call returns and the model stops requesting tools: it may request  *)
(* tools only while the run has room for the dispatch and one more model   *)
(* call.                                                                   *)

ReturningOutcomes ==
    { o \in ModelOutcomes(tavilyTool) :
        /\ o.ok
        /\ HasToolCalls(o.response) => steps + 3 <= MaxSteps }

\* node "agent" returns, the model call having returned
AgentNodeReturns == AgentReturns(ReturningOutcomes)

LiveInit == Init /\ program = "single"

LiveNext ==
    \/ BeginNode
    \/ AgentNodeReturns
    \/ Route
    \/ ToolsNode

\* the orchestrator loop keeps going: a node that can start is started, a
\* started node returns, a pending conditional edge is evaluated
LiveSpec ==
    /\ LiveInit
    /\ [][LiveNext]_vars
    /\ WF_vars(BeginNode)
    /\ WF_vars(AgentNodeReturns)
    /\ WF_vars(Route)
    /\ WF_vars(ToolsNode)

----------------------------------------------------------------------------
(* Helpers of the properties *)

Last(seq) == seq[Len(seq)]

RECURSIVE Flatten(_)
Flatten(ss) == IF ss = <<>> THEN <<>> ELSE Head(ss) \o Flatten(Tail(ss))

RECURSIVE SumLen(_)
SumLen(ss) == IF ss = <<>> THEN 0 ELSE Len(Head(ss)) + SumLen(Tail(ss))

AgentNames == {"Researcher", "ChartGenerator"}

\* the most recent node execution returned a delta, which was merged
Merged == lastStep.node # "none" /\ ~ lastStep.result.threw

IsErrorContent(c) == c \in {"Error: tool not found", "Error: invalid arguments"}

\* the most recent node execution is a dispatcher step of the single-agent graph
ToolsStepDone == program = "single" /\ lastStep.node = "tools"

----------------------------------------------------------------------------
(* Properties *)

\* C1: the messages list is the concatenation, in order, of the input and of
\* the messages of every merged delta: after a step it is the list before the
\* step followed by the step's delta, and its length is the sum of the
\* lengths of the deltas (the input counted as the first one).
C1_AppendOnly ==
    /\ state.messages = Flatten(log)
    /\ Len(state.messages) = SumLen(log)
    /\ Merged => state.messages =
                    lastStep.pre.messages \o lastStep.result.delta.messages

\* a run in which the input, an agent delta and a two-message dispatcher
\* delta have been merged
C1_Witness ==
    /\ Len(log) >= 3
    /\ lastStep.node = "tools"
    /\ Merged /\ Len(lastStep.result.delta.messages) = 2

\* C2: once an agent delta has been merged, sender is the name carried by the
\* most recent agent delta; a dispatcher step (delta without sender) leaves
\* sender as it was before the step.
C2_SenderLastAgent ==
    program = "multi" =>
        /\ lastAgent # "none" => state.sender = lastAgent
        /\ (lastStep.node = "tools" /\ Merged) =>
               /\ "sender" \notin DOMAIN lastStep.result.delta
               /\ state.sender = lastStep.pre.sender
        /\ (lastStep.node \in AgentNames /\ Merged) =>
               state.sender = lastStep.result.delta.sender

\* a dispatcher step merged after a step of the second agent, on a state
\* that the caller created with sender "User"
C2_Witness ==
    /\ program = "multi"
    /\ lastStep.node = "tools" /\ Merged
    /\ lastAgent = "ChartGenerator"
    /\ Len(log) = 3
    /\ lastStep.pre.sender = "ChartGenerator"

\* C3: every routing decision is determined by the last message alone:
\* "tools" when it carries at least one tool call, "__end__" otherwise, and
\* two evaluations on equal last messages agree whatever precedes them.
C3_RouteByLastMessage ==
    /\ \A r \in routeLog :
          /\ Len(r.messages) > 0
          /\ r.decision =
                IF HasToolCalls(Last(r.messages)) THEN "tools" ELSE "__end__"
    /\ \A r1, r2 \in routeLog :
          (Len(r1.messages) > 0 /\ Len(r2.messages) > 0
             /\ Last(r1.messages) = Last(r2.messages))
          => r1.decision = r2.decision

\* two evaluations with the same last message and different earlier messages
C3_Witness ==
    \E r1, r2 \in routeLog :
       /\ r1.messages # r2.messages
       /\ Last(r1.messages) = Last(r2.messages)

\* C4: a successful agent step of agent N returns exactly one message and
\* sender N; the message is the response re-created as a human message named
\* N exactly when the response has no tool calls, and the response itself
\* when it has some.
C4_AgentDelta ==
    (lastStep.node \in AgentNames /\ lastStep.input.ok) =>
        LET response == lastStep.input.response
            delta == lastStep.result.delta
        IN  /\ ~ lastStep.result.threw
            /\ DOMAIN delta = {"messages", "sender"}
            /\ Len(delta.messages) = 1
            /\ delta.sender = lastStep.node
            /\ (delta.messages[1] = NamedHumanMessage(response, lastStep.node))
                  <=> Len(response.tool_calls) = 0
            /\ Len(response.tool_calls) > 0 => delta.messages[1] = response

\* an agent step that kept a tool-calling response, in a run where an
\* earlier final text of the other agent was re-created as a human message
C4_Witness ==
    /\ lastStep.node = "ChartGenerator" /\ lastStep.input.ok
    /\ Len(lastStep.input.response.tool_calls) > 0
    /\ \E i \in 1..Len(state.messages) :
          state.messages[i] =
              [type |-> "human", content |-> "answer", name |-> "Researcher"]

\* C6 (as stated): sender is a known agent name or the sentinel default.
C6_SenderKnown ==
    program = "multi" => state.sender \in AgentNames \cup {senderDefault}

\* C7: every evaluation of the routing function returns a node name, on a
\* non-empty messages list, and the evaluation leaves the state unchanged.
C7_RouteTotal ==
    /\ [](/\ \A r \in routeLog :
                /\ r.decision \in {"tools", "__end__"}
                /\ Len(r.messages) > 0
          /\ error # TypeError)
    /\ [][routeLog' # routeLog => state' = state]_vars

\* a run in which routing was evaluated twice, once for each decision
C7_Witness ==
    \E r1, r2 \in routeLog :
       r1.decision = "tools" /\ r2.decision = "__end__"

C10_ModelErrorPropagates ==
    (lastStep.node \in AgentNames \cup {"agent"} /\ ~ lastStep.input.ok) =>
        /\ lastStep.result.threw
        /\ status = "failed"
        /\ error = lastStep.input.error
        /\ modelCalls = lastStep.callsBefore + 1
        /\ state = lastStep.pre
        /\ Flatten(log) = lastStep.pre.messages

\* a model call rejected in the second agent step of a run
C10_Witness ==
    /\ lastStep.node = "agent" /\ ~ lastStep.input.ok
    /\ steps = 3 /\ status = "failed"
    /\ error = "RateLimitError"

C14_TwoAgentRouting ==
    (program = "multi" /\ lastStep.node \in AgentNames /\ Merged) =>
        LET m == Last(state.messages)
        IN  IF HasToolCalls(m) THEN next = {"tools"}
            ELSE IF m.content = "FINAL ANSWER" THEN status = "done"
            ELSE next = AgentNames \ {lastStep.node}

\* C15: in a run of the single-agent graph the first node is "agent";
\* "tools" starts only right after an agent step whose appended message has
\* tool calls, and is followed by "agent"; the terminal state is reached
\* only right after an agent step.
C15_NodeOrder ==
    program = "single" =>
        /\ trace # <<>> => trace[1] = "agent"
        /\ \A i \in 1..Len(trace) :
              /\ trace[i] = "tools" =>
                    /\ i > 1 /\ trace[i - 1] = "agent"
                    /\ i < Len(trace) => trace[i + 1] = "agent"
              /\ trace[i] = "__end__" =>
                    /\ i = Len(trace)
                    /\ i > 1 /\ trace[i - 1] = "agent"
        /\ "tools" \in active =>
              /\ lastStep.node = "agent" /\ Merged
              /\ Last(state.messages) = lastStep.result.delta.messages[1]
              /\ HasToolCalls(Last(state.messages))
        /\ status = "done" <=> (trace # <<>> /\ Last(trace) = "__end__")

\* a run through agent, tools, agent and the terminal state
C15_Witness ==
    /\ program = "single"
    /\ trace = <<"agent", "tools", "agent", "__end__">>

====
